---------------------------- MODULE Spec2Model ----------------------------
(***************************************************************************)
(* Model of the workflow executor of the Smart Kissan agent                *)
(* (class SmartKissanAgent, src/src/components/AgriMindChat.tsx:962-1399). *)
(*                                                                         *)
(* Conventions                                                             *)
(*  - JavaScript strings are TLA+ strings; TLC's Len, \o and SubSeq work   *)
(*    on them, which is what toLowerCase / includes are built from.        *)
(*  - Characters outside ASCII cannot be written in a TLA+ string.  The    *)
(*    Urdu keywords are written as one bracketed token each ("[pani]" for  *)
(*    U+067E U+0627 U+0646 U+06CC, ...), which toLowerCase leaves alone,   *)
(*    and the degree sign of the formatter is written "^" (one UTF-16      *)
(*    unit, as in the source).                                             *)
(*  - JavaScript values are tagged records: the field t is the tag.        *)
(*  - Fractional numbers are fixed point: wind speed in tenths, soil       *)
(*    temperatures and moisture in hundredths.                             *)
(***************************************************************************)
EXTENDS Integers, Sequences, FiniteSets, TLC

(***************************************************************************)
(* Bounds of the model.                                                    *)
(***************************************************************************)
MaxCalls == 2
MaxClock == 1
MaxSends == 2

Calls == 1..MaxCalls

(***************************************************************************)
(* String primitives.                                                      *)
(***************************************************************************)
\* the upper-case letters and their lower-case forms
UpperToLower ==
  [A |-> "a", B |-> "b", C |-> "c", D |-> "d", E |-> "e", F |-> "f", G |-> "g",
   H |-> "h", I |-> "i", J |-> "j", K |-> "k", L |-> "l", M |-> "m", N |-> "n",
   O |-> "o", P |-> "p", Q |-> "q", R |-> "r", S |-> "s", T |-> "t", U |-> "u",
   V |-> "v", W |-> "w", X |-> "x", Y |-> "y", Z |-> "z"]

CharAt(s, i) == SubSeq(s, i, i)

LowerChar(ch) == IF ch \in DOMAIN UpperToLower THEN UpperToLower[ch] ELSE ch

RECURSIVE LowerFrom(_, _)
LowerFrom(s, i) ==
  IF i > Len(s) THEN "" ELSE LowerChar(CharAt(s, i)) \o LowerFrom(s, i + 1)

\* String.prototype.toLowerCase
ToLowerCase(s) == LowerFrom(s, 1)

\* String.prototype.includes
Includes(s, sub) ==
  \E i \in 1..(Len(s) - Len(sub) + 1) : SubSeq(s, i, i + Len(sub) - 1) = sub

IsSpaceChar(ch) == ch = " "

\* String.prototype.trim
RECURSIVE TrimStart(_)
TrimStart(s) ==
  IF Len(s) > 0 /\ IsSpaceChar(CharAt(s, 1)) THEN TrimStart(SubSeq(s, 2, Len(s))) ELSE s

RECURSIVE TrimEnd(_)
TrimEnd(s) ==
  IF Len(s) > 0 /\ IsSpaceChar(CharAt(s, Len(s)))
    THEN TrimEnd(SubSeq(s, 1, Len(s) - 1)) ELSE s

Trim(s) == TrimEnd(TrimStart(s))


(***************************************************************************)
(* JavaScript values.                                                      *)
(***************************************************************************)
Undefined == [t |-> "undefined"]
Str(s) == [t |-> "string", v |-> s]
Arr(items) == [t |-> "array", v |-> items]

IsString(x) == x.t = "string"
\* JavaScript truthiness of the values that occur in the bag
Truthy(x) == x.t # "undefined" /\ ~(x.t = "string" /\ x.v = "")

(***************************************************************************)
(* The farmer queries the calls are made with (AgentInput.farmer_query).   *)
(* The first two are the quick-action buttons of the chat.                 *)
(***************************************************************************)
QWater == "I need water for my 2-acre farm"
QFertilizer == "Need fertilizer recommendations for wheat crop"
QUpper == "PAANI aur khad"
QIrrigation == "irrigation schedule"
QLeaf == "my leaf has spots"

Queries == {QWater, QFertilizer, QUpper, QIrrigation, QLeaf}

(***************************************************************************)
(* The static configuration (smart-kissan-agent.yaml).  The document is    *)
(* not part of the sources under src/; what yaml.load returns for it is    *)
(* one of the documents below.                                             *)
(***************************************************************************)
NoGuard == ""

WorkflowStep(id, type, when, output) ==
  [id |-> id, type |-> type, when |-> when, output |-> output]

\* the step list of the specification, section 4.4, in declaration order
Workflow(typesOk, guarded) ==
  << WorkflowStep("query_refiner",
                  IF typesOk THEN "model_call" ELSE "python",
                  NoGuard, "refined_query"),
     WorkflowStep("weather_api",
                  IF typesOk THEN "api_call" ELSE "model_call",
                  NoGuard, "weather_data"),
     WorkflowStep("soil_data",
                  IF typesOk THEN "python" ELSE "api_call",
                  NoGuard, "soil_data"),
     WorkflowStep("disease_detection",
                  IF typesOk THEN "model_call" ELSE "llm_call",
                  IF guarded THEN "refined_query contains 'disease'" ELSE NoGuard,
                  "disease_report"),
     WorkflowStep("allocation_agent",
                  IF typesOk THEN "model_call" ELSE "llm_call",
                  IF guarded THEN "refined_query contains 'resource allocation'"
                             ELSE NoGuard,
                  "allocation_plan"),
     WorkflowStep("response_formatter",
                  IF typesOk THEN "model_call" ELSE "llm_call",
                  NoGuard, "final_answer") >>

\* what yaml.load can return: the well-formed document, documents whose step
\* types are unknown to the dispatcher or name a handler that does not know
\* the step's id (with and without guards), a document without a step list,
\* and an empty document (undefined)
AgentConfig(typesOk, guarded) ==
  [shape |-> "object", hasWorkflow |-> TRUE, workflow |-> Workflow(typesOk, guarded)]
ConfigNoWorkflow == [shape |-> "object", hasWorkflow |-> FALSE, workflow |-> << >>]
ConfigUndefined == [shape |-> "undefined", hasWorkflow |-> FALSE, workflow |-> << >>]
LoadFailed == [shape |-> "load_failed", hasWorkflow |-> FALSE, workflow |-> << >>]

YamlDocuments ==
  {AgentConfig(TRUE, TRUE), AgentConfig(FALSE, TRUE), AgentConfig(FALSE, FALSE),
   ConfigNoWorkflow, ConfigUndefined}

\* a property read on the result bag: undefined when the key is absent
Get(bag, key) == IF key \in DOMAIN bag THEN bag[key] ELSE Undefined

\* bag[key] = value
Put(bag, key, value) ==
  [k \in DOMAIN bag \cup {key} |-> IF k = key THEN value ELSE bag[k]]


(***************************************************************************)
(* evaluateCondition: the guard `<identifier> contains '<literal>'`.       *)
(***************************************************************************)
WordChars == {"a","b","c","d","e","f","g","h","i","j","k","l","m","n","o","p",
              "q","r","s","t","u","v","w","x","y","z","0","1","2","3","4","5",
              "6","7","8","9","_"}
IsWordChar(ch) == LowerChar(ch) \in WordChars

RECURSIVE SkipWord(_, _)
SkipWord(s, i) ==
  IF i <= Len(s) /\ IsWordChar(CharAt(s, i)) THEN SkipWord(s, i + 1) ELSE i

RECURSIVE SkipSpace(_, _)
SkipSpace(s, i) ==
  IF i <= Len(s) /\ IsSpaceChar(CharAt(s, i)) THEN SkipSpace(s, i + 1) ELSE i

RECURSIVE SkipNonQuote(_, _)
SkipNonQuote(s, i) ==
  IF i <= Len(s) /\ CharAt(s, i) # "'" THEN SkipNonQuote(s, i + 1) ELSE i

NoMatch == [matched |-> FALSE, variable |-> "", searchTerm |-> ""]

\* /(\w+)\s+contains\s+'([^']+)'/i tried at position i
MatchAt(s, i) ==
  LET e == SkipWord(s, i)
      w == SkipSpace(s, e)
      k == w + 8
      x == SkipSpace(s, k)
      y == SkipNonQuote(s, x + 1)
  IN IF /\ e > i
        /\ w > e
        /\ k - 1 <= Len(s)
        /\ ToLowerCase(SubSeq(s, w, k - 1)) = "contains"
        /\ x > k
        /\ x <= Len(s)
        /\ CharAt(s, x) = "'"
        /\ y > x + 1
        /\ y <= Len(s)
       THEN [matched |-> TRUE, variable |-> SubSeq(s, i, e - 1),
             searchTerm |-> SubSeq(s, x + 1, y - 1)]
       ELSE NoMatch

RECURSIVE MatchFrom(_, _)
MatchFrom(s, i) ==
  IF i > Len(s) THEN NoMatch
  ELSE LET m == MatchAt(s, i) IN IF m.matched THEN m ELSE MatchFrom(s, i + 1)

\* condition.match(...): the leftmost match
Match(s) == MatchFrom(s, 1)

\* a variant that compares without lower-casing either side
evaluateConditionCaseSensitive(condition, bag) ==
  LET m == IF Includes(condition, "contains") THEN Match(condition) ELSE NoMatch
      value == Get(bag, m.variable)
  IN IF m.matched /\ IsString(value)
       THEN Includes(value.v, m.searchTerm)
       ELSE TRUE

\* a variant that blocks the step when the guard cannot be applied
evaluateConditionFailClosed(condition, bag) ==
  LET m == IF Includes(condition, "contains") THEN Match(condition) ELSE NoMatch
      value == Get(bag, m.variable)
  IN IF m.matched /\ IsString(value)
       THEN Includes(ToLowerCase(value.v), ToLowerCase(m.searchTerm))
       ELSE FALSE

evaluateCondition(condition, bag) ==
  LET m == IF Includes(condition, "contains") THEN Match(condition) ELSE NoMatch
      value == Get(bag, m.variable)
  IN IF m.matched /\ IsString(value)
       THEN Includes(ToLowerCase(value.v), ToLowerCase(m.searchTerm))
       ELSE TRUE


(***************************************************************************)
(* The step handlers.                                                      *)
(***************************************************************************)
IncludesAny(s, keywords) == \E k \in keywords : Includes(s, k)

farmer_query(bag) == Get(bag, "inputs").farmer_query

\* a variant that tests the water keywords before the weather keywords
simulateQueryRefinerWaterFirst(bag) ==
  LET farmerQuery == ToLowerCase(farmer_query(bag))
  IN IF IncludesAny(farmerQuery, {"paani", "water", "[pani]", "irrigation"})
       THEN "resource allocation for water irrigation required"
     ELSE IF IncludesAny(farmerQuery, {"barsat", "rain", "weather", "[mausam]"})
       THEN "weather forecast and precipitation analysis needed"
     ELSE IF IncludesAny(farmerQuery, {"disease", "[bimari]", "leaf", "[patta]"})
       THEN "disease detection and crop health analysis needed"
     ELSE IF IncludesAny(farmerQuery, {"fertilizer", "khad", "[khaad]"})
       THEN "resource allocation for fertilizer application required"
     ELSE IF IncludesAny(farmerQuery, {"soil", "mitti", "[mitti]"})
       THEN "soil analysis and moisture monitoring needed"
     ELSE "general agricultural advice and resource guidance needed"

simulateQueryRefiner(bag) ==
  LET farmerQuery == ToLowerCase(farmer_query(bag))
  IN IF IncludesAny(farmerQuery, {"barsat", "rain", "weather", "[mausam]"})
       THEN "weather forecast and precipitation analysis needed"
     ELSE IF IncludesAny(farmerQuery, {"paani", "water", "[pani]", "irrigation"})
       THEN "resource allocation for water irrigation required"
     ELSE IF IncludesAny(farmerQuery, {"disease", "[bimari]", "leaf", "[patta]"})
       THEN "disease detection and crop health analysis needed"
     ELSE IF IncludesAny(farmerQuery, {"fertilizer", "khad", "[khaad]"})
       THEN "resource allocation for fertilizer application required"
     ELSE IF IncludesAny(farmerQuery, {"soil", "mitti", "[mitti]"})
       THEN "soil analysis and moisture monitoring needed"
     ELSE "general agricultural advice and resource guidance needed"

\* the canned reports simulateDiseaseDetection draws from
diseases ==
  << [t |-> "object", condition |-> "Early Blight",
      explanation |-> "Your crop shows signs of early blight disease with dark spots on leaves",
      treatment |-> "Apply copper-based fungicide every 7 days and remove affected leaves"],
     [t |-> "object", condition |-> "Leaf Rust",
      explanation |-> "Orange-brown spots indicate leaf rust affecting your crop",
      treatment |-> "Use sulfur-based spray and improve air circulation around plants"],
     [t |-> "object", condition |-> "Healthy",
      explanation |-> "Your crop leaves look healthy with good green color",
      treatment |-> "Continue current care practices and monitor regularly"] >>

\* diseases[Math.floor(Math.random() * diseases.length)]; random is the draw
\* of Math.random() in thousandths, and sequences are indexed from 1
simulateDiseaseDetection(random) ==
  diseases[((random * Len(diseases)) \div 1000) + 1]

WaterKeywords == {"water", "paani", "[pani]"}
FertilizerKeywords == {"fertilizer", "khad", "[khaad]"}

\* weather?.main?.temp and weather?.main?.humidity: undefined unless the value
\* is an object with a main part
HasMain(weather) ==
  weather.t = "object" /\ "main" \in DOMAIN weather /\ weather.main.t = "object"

\* weather?.weather?.[0]?.description
HasDescription(weather) ==
  weather.t = "object" /\ "weather" \in DOMAIN weather /\ Len(weather.weather) > 0

HasSamples(soil) == soil.t = "array" /\ Len(soil.v) > 0
\* a variant that reads the first sample
FirstSample(soil) == soil.v[1]
LastSample(soil) == soil.v[Len(soil.v)]

\* a variant that tests the fertilizer flag before the water flag
FertilizerFirstPercent(isWaterRequest, isFertilizerRequest) ==
  IF isFertilizerRequest THEN 75 ELSE IF isWaterRequest THEN 85 ELSE 70

approved_percent(isWaterRequest, isFertilizerRequest) ==
  IF isWaterRequest THEN 85 ELSE IF isFertilizerRequest THEN 75 ELSE 70

simulateAllocationAgent(bag) ==
  LET farmerQuery == farmer_query(bag)
      weather == Get(bag, "weather_data")
      soil == Get(bag, "soil_data")
      isWaterRequest == IncludesAny(ToLowerCase(farmerQuery), WaterKeywords)
      isFertilizerRequest == IncludesAny(ToLowerCase(farmerQuery), FertilizerKeywords)
  IN [t |-> "object",
      request |-> farmerQuery,
      allocation |->
        [approved_percent |-> approved_percent(isWaterRequest, isFertilizerRequest),
         delivery_schedule |-> "Within 2-3 days",
         priority |-> IF HasMain(weather) /\ weather.main.temp > 30
                        THEN "High" ELSE "Medium"],
      analysis |->
        [soil_moisture |-> IF HasSamples(soil) THEN LastSample(soil).moisture ELSE 22,
         recommendation |-> IF isWaterRequest
                              THEN "Increase irrigation frequency due to high temperature"
                              ELSE "Apply during cooler hours"],
      weather |->
        [temperature_c |-> IF HasMain(weather) /\ weather.main.temp # 0
                             THEN weather.main.temp ELSE 28,
         humidity_percent |-> IF HasMain(weather) /\ weather.main.humidity # 0
                                THEN weather.main.humidity ELSE 65,
         condition |-> IF HasDescription(weather) /\ weather.weather[1].description # ""
                         THEN weather.weather[1].description ELSE "partly cloudy"],
      next_steps |-> << "Confirm pickup location and timing",
                        "Prepare application equipment",
                        "Monitor crop response after application" >>]


\* the generic paragraph: the formatter's own fallback and the fallback-table
\* entry of response_formatter are the same text
GenericAdvice ==
  "Based on general farming practices, water your crops in the morning, "
    \o "check for pests regularly, and monitor soil moisture. Keep an eye on "
    \o "weather patterns and adjust your irrigation accordingly."

\* weather.main.temp is read on every truthy weather value: a TypeError when
\* the value has no main part (a string, a body without main)
simulateResponseFormatterThrows(bag) ==
  LET weather == Get(bag, "weather_data")
  IN Truthy(weather) /\ ~HasMain(weather)

Acknowledgment(farmerQuery, weather) ==
  LET q == ToLowerCase(farmerQuery)
  IN IF farmerQuery # "" /\ IncludesAny(q, {"barsat", "rain"})
       THEN "Based on current weather data, "
              \o (IF \/ (HasDescription(weather)
                          /\ Includes(weather.weather[1].description, "rain"))
                     \/ (HasMain(weather) /\ weather.main.humidity > 80)
                    THEN "there's a good chance of rain in the next day or two. "
                    ELSE "rain is not expected immediately, but humidity levels "
                           \o "suggest possible showers later. ")
     ELSE IF farmerQuery # "" /\ IncludesAny(q, {"paani", "water"})
       THEN "I understand you need water for your crops. "
     ELSE IF farmerQuery # "" /\ IncludesAny(q, {"fertilizer", "khad"})
       THEN "Regarding your fertilizer needs, "
     ELSE "Based on your farming question, "

WeatherContext(weather) ==
  IF Truthy(weather)
    THEN "Current temperature is " \o ToString(weather.main.temp) \o "^C with "
           \o ToString(weather.main.humidity) \o "% humidity. "
           \o (IF weather.main.temp > 30
                 THEN "It's quite hot, so your crops will need more water. "
               ELSE IF weather.main.temp < 20
                 THEN "The weather is cool, which is good for most crops. "
               ELSE "")
    ELSE ""

SoilInformation(soil) ==
  IF HasSamples(soil)
    THEN "Your soil moisture is at " \o ToString(LastSample(soil).moisture) \o "%. "
           \o (IF LastSample(soil).moisture < 20
                 THEN "This is on the low side, so consider watering your crops soon. "
               ELSE IF LastSample(soil).moisture > 25
                 THEN "Moisture levels are good, so you can wait a day before the next watering. "
               ELSE "")
    ELSE ""

DiseaseInformation(disease) ==
  IF Truthy(disease)
    THEN IF disease.condition # "" /\ disease.condition # "Healthy"
           THEN "I noticed signs of " \o ToLowerCase(disease.condition)
                  \o " in your crop. " \o disease.explanation \o " "
                  \o "My recommendation: " \o ToLowerCase(disease.treatment) \o ". "
           ELSE "Your crops look healthy, which is great! "
    ELSE ""

AllocationInformation(allocation) ==
  IF Truthy(allocation)
    THEN "Regarding your request for resources, I can approve "
           \o ToString(allocation.allocation.approved_percent)
           \o "% of what you asked for. "
           \o "Delivery can be arranged "
           \o ToLowerCase(allocation.allocation.delivery_schedule) \o ". "
    ELSE ""

FarmingTips ==
  "Pro tip: Water your crops early morning or late evening to reduce evaporation. "
    \o "Also, keep checking your plants daily for any changes in color or growth patterns."

\* the text assembled before the length test
AssembledResponse(bag) ==
  LET weather == Get(bag, "weather_data")
  IN Acknowledgment(farmer_query(bag), weather)
       \o WeatherContext(weather)
       \o SoilInformation(Get(bag, "soil_data"))
       \o DiseaseInformation(Get(bag, "disease_report"))
       \o AllocationInformation(Get(bag, "allocation_plan"))

\* a variant whose length test is response.length > 30
simulateResponseFormatterShortTest(bag) ==
  LET response == AssembledResponse(bag)
  IN Trim(IF Len(response) > 30 THEN response \o FarmingTips ELSE GenericAdvice)

simulateResponseFormatter(bag) ==
  LET response == AssembledResponse(bag)
  IN Trim(IF Len(response) > 50 THEN response \o FarmingTips ELSE GenericAdvice)

(***************************************************************************)
(* getWeatherData: what the provider can answer, and the record returned   *)
(* from the catch block.                                                   *)
(***************************************************************************)
WeatherData(temp, humidity, pressure, main, description, speed10) ==
  [t |-> "object",
   main |-> [t |-> "object", temp |-> temp, humidity |-> humidity,
             pressure |-> pressure],
   weather |-> << [main |-> main, description |-> description] >>,
   wind |-> [speed10 |-> speed10]]

\* a variant whose catch block returns the fallback-table entry of weather_api
TableWeatherFallback ==
  Str("Weather conditions are moderate. Check local forecasts for rain.")

FallbackWeatherData == WeatherData(28, 65, 1013, "Clear", "clear sky", 35)

\* JSON bodies of a 2xx answer: a hot rainy day, a reading of zero, and a
\* body that is valid JSON without the main part
ResponseBodies ==
  { WeatherData(35, 85, 1005, "Rain", "light rain", 52),
    WeatherData(0, 0, 1020, "Clear", "clear sky", 10),
    [t |-> "object", cod |-> 200] }


(***************************************************************************)
(* generateSoilData.  Dates are days counted from 1 September 2025 (day 1);*)
(* an instant is a number of hours since 2025-09-01T00:00Z.  The host's    *)
(* time zone is tz hours east of UTC.                                      *)
(***************************************************************************)
Pad2(n) == IF n < 10 THEN "0" \o ToString(n) ELSE ToString(n)

\* new Date(2025, 8, day): local midnight of that day, as an instant
LocalMidnight(day, tz) == (day - 1) * 24 - tz

\* date.toISOString().split('T')[0]: the calendar date in UTC of an instant
ISODate(instant) ==
  LET day == (instant \div 24) + 1
  IN IF day < 1 THEN "2025-08-" \o Pad2(31 + day)
     ELSE IF day > 30 THEN "2025-10-" \o Pad2(day - 30)
     ELSE "2025-09-" \o Pad2(day)

\* Math.round(n / d) for n, d > 0
Round(n, d) == (2 * n + d) \div (2 * d)

\* Math.random() is a generator with a state: the draws of a run of the
\* program are one sequence, read in order.  A draw is a number of
\* thousandths, 0..999; a sequence is given by its period.
RandomSequences ==
  { << 0, 0, 0, 999, 999, 999, 500 >>,
    << 500, 999, 0, 999, 0 >> }

\* the n-th draw of sequence random after `drawn` draws were made
RandomAt(random, drawn, n) == random[((drawn + n - 1) % Len(random)) + 1]

\* a variant whose t10 offset is Math.random() * 3 + 1.5
SoilSampleWideOffset(instant, hour, r0, r10, rm) ==
  LET t0 == Round(r0 * (30000 - 29300) + 29300 * 1000, 1000)
      t10 == Round(t0 * 1000 - (r10 * 300 + 150 * 1000), 1000)
      moisture == Round(rm * (26 - 18) + 18 * 1000, 1000)
  IN [date |-> ISODate(instant), time |-> Pad2(hour) \o ":00",
      t0 |-> t0, t10 |-> t10, moisture |-> moisture]

\* one sample: the draws are made in the order t0, t10, moisture
SoilSample(instant, hour, r0, r10, rm) ==
  LET t0 == Round(r0 * (30000 - 29300) + 29300 * 1000, 1000)
      t10 == Round(t0 * 1000 - (r10 * (300 - 150) + 150 * 1000), 1000)
      moisture == Round(rm * (26 - 18) + 18 * 1000, 1000)
  IN [date |-> ISODate(instant), time |-> Pad2(hour) \o ":00",
      t0 |-> t0, t10 |-> t10, moisture |-> moisture]

RECURSIVE SoilLoop(_, _, _, _, _, _)
SoilLoop(currentDay, endDay, tz, random, drawn, data) ==
  IF LocalMidnight(currentDay, tz) <= LocalMidnight(endDay, tz)
    THEN LET n == 3 * Len(data)
         IN SoilLoop(currentDay + 1, endDay, tz, random, drawn,
              data \o << SoilSample(LocalMidnight(currentDay, tz), 9,
                                    RandomAt(random, drawn, n + 1),
                                    RandomAt(random, drawn, n + 2),
                                    RandomAt(random, drawn, n + 3)),
                         SoilSample(LocalMidnight(currentDay, tz), 15,
                                    RandomAt(random, drawn, n + 4),
                                    RandomAt(random, drawn, n + 5),
                                    RandomAt(random, drawn, n + 6)) >>)
    ELSE data

generateSoilData(tz, random, drawn) ==
  Arr(SoilLoop(24, 29, tz, random, drawn, << >>))

(***************************************************************************)
(* getFallbackResult.  The first statement reads this.config.fallbacks,    *)
(* a TypeError when the configuration is undefined.                        *)
(***************************************************************************)
getFallbackResultThrows(cfg) == cfg.shape # "object"

getFallbackResult(stepId, bag, now) ==
  CASE stepId = "query_refiner" ->
         Str("general agricultural advice and resource guidance needed")
    [] stepId = "weather_api" ->
         Str("Weather conditions are moderate. Check local forecasts for rain.")
    [] stepId = "soil_data" ->
         Arr(<< [date |-> ISODate(now), time |-> "09:00",
                 t0 |-> 29500, t10 |-> 29300, moisture |-> 20] >>)
    [] stepId = "disease_detection" ->
         [t |-> "object", condition |-> "Unknown",
          explanation |-> "Unable to analyze image. Check for yellowing, spots, or wilting.",
          treatment |-> "Apply general fungicide and improve plant care."]
    [] stepId = "allocation_agent" ->
         [t |-> "object",
          request |-> IF farmer_query(bag) # "" THEN farmer_query(bag)
                                               ELSE "Resource request",
          allocation |-> [approved_percent |-> 70,
                          delivery_schedule |-> "Within 3-5 days",
                          priority |-> "Medium"],
          analysis |-> [soil_moisture |-> 20,
                        recommendation |-> "Monitor crop conditions regularly"],
          weather |-> [temperature_c |-> 25, humidity_percent |-> 60,
                       condition |-> "partly cloudy"],
          next_steps |-> << "Contact local cooperative", "Prepare application area",
                            "Schedule follow-up" >>]
    [] stepId = "response_formatter" -> Str(GenericAdvice)
    [] OTHER ->
         Str("Information not available at the moment. Please try again later.")


(***************************************************************************)
(* The executor.                                                           *)
(*                                                                         *)
(* JavaScript runs one task at a time: a call that is not suspended at the *)
(* network holds the thread (running) until it suspends or returns.  A new *)
(* call (a UI event) and the delivery of a network result are tasks of     *)
(* their own and start only when the thread is free.                       *)
(***************************************************************************)
VARIABLES
  config,           \* this.config, set by the constructor
  workflowResults,  \* this.workflowResults, the result bag of the instance
  writer,           \* for each key of the bag, the call that wrote it
  pc,               \* where each call of execute is
  step,             \* the index in config.workflow of each call's loop
  results,          \* the local AgentResponse each call builds
  response,         \* what each call resolved to
  query,            \* inputs.farmer_query of each call
  failed,           \* the step ids whose handler raised, for each call
  running,          \* the call that holds the thread, 0 when it is free
  overlapped,       \* whether some call started while another was suspended
  tz,               \* the host's time zone, hours east of UTC
  random,           \* the sequence Math.random() draws from
  drawn,            \* how many draws were made, modulo the period
  clock,            \* the host's clock when it was last read, in days elapsed
  applied,          \* the last direct call of a helper method: name, arguments, result
  invocations,      \* for each call, the step handlers and provider requests it made, in order
  messages,         \* the chat component's message list
  inputText,        \* the text of the input field
  language,         \* 'en' or 'ur'
  isLoading,        \* the loading indicator
  processingAgent,  \* the "Running Smart Kissan Agent..." line of the indicator
  sends             \* the invocations of handleSendMessage, in order

\* the state of the chat component
ui == << messages, inputText, language, isLoading, processingAgent, sends >>

vars == << ui, applied, invocations, config, workflowResults, writer, pc, step, results,
           response, query, failed, running, overlapped, tz, random, drawn, clock >>

\* no helper method was called directly
NotApplied == [fn |-> "none"]

(***************************************************************************)
(* The chat component's initial state.  A message carries, besides its     *)
(* type, content and image, the position in `sends` of the invocation of   *)
(* handleSendMessage that appended it (0 for the welcome message).         *)
(***************************************************************************)
Message(type, content, messageType, image, send) ==
  [type |-> type, content |-> content, messageType |-> messageType,
   image |-> image, send |-> send]

\* the welcome message of useEffect([language])
WelcomeMessage(lang) ==
  Message("smartkissan",
          IF lang = "en"
            THEN "Hello! I'm Smart Kissan, your AI farming companion."
            ELSE "[ur] Assalam-o-alaikum! Main Smart Kissan hoon.",
          "", FALSE, 0)

\* the component after its first render and the effects of the mount
Mounted ==
  /\ messages = << WelcomeMessage("en") >>
  /\ inputText = ""
  /\ language = "en"
  /\ isLoading = FALSE
  /\ processingAgent = FALSE
  /\ sends = << >>

TimeZones == {-5, 5}

\* new Date(): noon UTC of 26 September 2025 plus the days elapsed; a reading
\* is never earlier than the one before
Instant(days) == (26 - 1 + days) * 24 + 12
ClockReadings == clock..MaxClock

\* const results: AgentResponse = { success: true }
EmptyResponse ==
  [weather |-> Undefined, soil |-> Undefined, disease |-> Undefined,
   allocation |-> Undefined, final_answer |-> Undefined,
   success |-> TRUE, error |-> Undefined]

\* the object returned from the top-level catch
FailureResponse(message, fallback) ==
  [weather |-> Undefined, soil |-> Undefined, disease |-> Undefined,
   allocation |-> Undefined, final_answer |-> fallback,
   success |-> FALSE, error |-> Str(message)]

\* a variant that keeps the bag and assigns only this.workflowResults.inputs
FreshBagKeepsOutputs(farmerQuery) ==
  Put(workflowResults, "inputs", [t |-> "object", farmer_query |-> farmerQuery])

\* this.workflowResults = { inputs }
FreshBag(farmerQuery) ==
  [k \in {"inputs"} |-> [t |-> "object", farmer_query |-> farmerQuery]]

\* a variant of the chain with one more branch, for query_refiner
StoreResultAlsoRefiner(res, stepId, stepResult) ==
  CASE stepId = "query_refiner" -> [res EXCEPT !.final_answer = stepResult]
    [] stepId = "weather_api" -> [res EXCEPT !.weather = stepResult]
    [] stepId = "soil_data" -> [res EXCEPT !.soil = stepResult]
    [] stepId = "disease_detection" -> [res EXCEPT !.disease = stepResult]
    [] stepId = "allocation_agent" -> [res EXCEPT !.allocation = stepResult]
    [] stepId = "response_formatter" -> [res EXCEPT !.final_answer = stepResult]
    [] OTHER -> res

\* the if / else-if chain that copies a step's result into the response
StoreResult(res, stepId, stepResult) ==
  CASE stepId = "weather_api" -> [res EXCEPT !.weather = stepResult]
    [] stepId = "soil_data" -> [res EXCEPT !.soil = stepResult]
    [] stepId = "disease_detection" -> [res EXCEPT !.disease = stepResult]
    [] stepId = "allocation_agent" -> [res EXCEPT !.allocation = stepResult]
    [] stepId = "response_formatter" -> [res EXCEPT !.final_answer = stepResult]
    [] OTHER -> res

\* a variant of the per-step catch that copies the fallback into the field of
\* the failed step, as the success path does with a result
StoreFallbackInField(res, stepId, fallbackResult) ==
  CASE stepId = "weather_api" -> [res EXCEPT !.weather = fallbackResult]
    [] stepId = "soil_data" -> [res EXCEPT !.soil = fallbackResult]
    [] stepId = "disease_detection" -> [res EXCEPT !.disease = fallbackResult]
    [] stepId = "allocation_agent" -> [res EXCEPT !.allocation = fallbackResult]
    [] stepId = "response_formatter" -> [res EXCEPT !.final_answer = fallbackResult]
    [] OTHER -> res

\* a variant of the per-step catch that rolls the response back
StoreFallbackRollsBack(res, stepId, fallbackResult) ==
  IF stepId = "response_formatter"
    THEN [EmptyResponse EXCEPT !.final_answer = fallbackResult]
    ELSE EmptyResponse

\* what the per-step catch copies into the response
StoreFallback(res, stepId, fallbackResult) ==
  IF stepId = "response_formatter"
    THEN [res EXCEPT !.final_answer = fallbackResult]
    ELSE res

Init ==
  /\ config \in YamlDocuments \cup {LoadFailed}
  /\ workflowResults = << >>
  /\ writer = << >>
  /\ pc = [c \in Calls |-> "idle"]
  /\ step = [c \in Calls |-> 0]
  /\ results = [c \in Calls |-> Undefined]
  /\ response = [c \in Calls |-> Undefined]
  /\ query = [c \in Calls |-> ""]
  /\ failed = [c \in Calls |-> {}]
  /\ running = 0
  /\ overlapped = FALSE
  /\ tz \in TimeZones
  /\ random \in RandomSequences
  /\ drawn = 0
  /\ clock = 0
  /\ applied = NotApplied
  /\ invocations = [c \in Calls |-> << >>]
  /\ Mounted

Suspended(c) == pc[c] \in {"fetch", "json"}
CurrentStep(c) == config.workflow[step[c]]
InLoop(c) == running = c /\ pc[c] = "loop" /\ step[c] <= Len(config.workflow)
\* step.when && !this.evaluateCondition(step.when) is false
GuardHolds(c) ==
  CurrentStep(c).when = "" \/ evaluateCondition(CurrentStep(c).when, workflowResults)

\* execute(inputs), up to the first step of the loop
Execute(c, farmerQuery) ==
  /\ config.shape # "load_failed"
  /\ running = 0
  /\ pc[c] = "idle"
  /\ \A d \in Calls : d < c => pc[d] # "idle"
  /\ workflowResults' = FreshBag(farmerQuery)
  /\ writer' = [k \in {"inputs"} |-> c]
  /\ query' = [query EXCEPT ![c] = farmerQuery]
  /\ overlapped' = (overlapped \/ \E d \in Calls : Suspended(d))
  /\ results' = [results EXCEPT ![c] = EmptyResponse]
  /\ IF config.hasWorkflow
       THEN /\ pc' = [pc EXCEPT ![c] = "loop"]
            /\ step' = [step EXCEPT ![c] = 1]
            /\ running' = c
            /\ UNCHANGED response
       ELSE \* for (const step of this.config.workflow) raises a TypeError:
            \* the top-level catch runs, and its getFallbackResult may raise
            /\ IF getFallbackResultThrows(config)
                 THEN /\ pc' = [pc EXCEPT ![c] = "rejected"]
                      /\ UNCHANGED response
                 ELSE /\ pc' = [pc EXCEPT ![c] = "returned"]
                      /\ response' =
                           [response EXCEPT ![c] =
                              FailureResponse("this.config.workflow is not iterable",
                                getFallbackResult("response_formatter",
                                                  workflowResults', Instant(clock)))]
            /\ UNCHANGED << step, running >>
  /\ UNCHANGED << ui, applied, invocations, config, failed, tz, random, drawn, clock >>

\* a variant of the success path that also passes over the next step
SucceedSkipsNext(c, stepResult) ==
  /\ workflowResults' = Put(workflowResults, CurrentStep(c).output, stepResult)
  /\ writer' = Put(writer, CurrentStep(c).output, c)
  /\ results' = [results EXCEPT ![c] = StoreResult(@, CurrentStep(c).id, stepResult)]
  /\ step' = [step EXCEPT ![c] = @ + 2]
  /\ UNCHANGED << failed, clock >>

\* lines 991-1004: the handler returned stepResult
Succeed(c, stepResult) ==
  /\ workflowResults' = Put(workflowResults, CurrentStep(c).output, stepResult)
  /\ writer' = Put(writer, CurrentStep(c).output, c)
  /\ results' = [results EXCEPT ![c] = StoreResult(@, CurrentStep(c).id, stepResult)]
  /\ step' = [step EXCEPT ![c] = @ + 1]
  /\ UNCHANGED << failed, clock >>

\* a variant of the per-step catch that leaves the loop
FailAborts(c) ==
  \E days \in IF CurrentStep(c).id = "soil_data" THEN ClockReadings ELSE {clock} :
    LET fallbackResult ==
          getFallbackResult(CurrentStep(c).id, workflowResults, Instant(days))
    IN /\ workflowResults' = Put(workflowResults, CurrentStep(c).output, fallbackResult)
       /\ writer' = Put(writer, CurrentStep(c).output, c)
       /\ results' = [results EXCEPT ![c] = StoreFallback(@, CurrentStep(c).id, fallbackResult)]
       /\ step' = [step EXCEPT ![c] = Len(config.workflow) + 1]
       /\ failed' = [failed EXCEPT ![c] = @ \cup {CurrentStep(c).id}]
       /\ clock' = days

\* a variant of the per-step catch that leaves the step to be run again
FailRetries(c) ==
  \E days \in IF CurrentStep(c).id = "soil_data" THEN ClockReadings ELSE {clock} :
    LET fallbackResult ==
          getFallbackResult(CurrentStep(c).id, workflowResults, Instant(days))
    IN /\ workflowResults' = Put(workflowResults, CurrentStep(c).output, fallbackResult)
       /\ writer' = Put(writer, CurrentStep(c).output, c)
       /\ results' = [results EXCEPT ![c] = StoreFallback(@, CurrentStep(c).id, fallbackResult)]
       /\ step' = step
       /\ failed' = [failed EXCEPT ![c] = @ \cup {CurrentStep(c).id}]
       /\ clock' = days

\* lines 1005-1013: the handler raised
Fail(c) ==
  \E days \in IF CurrentStep(c).id = "soil_data" THEN ClockReadings ELSE {clock} :
    LET fallbackResult ==
          getFallbackResult(CurrentStep(c).id, workflowResults, Instant(days))
    IN /\ workflowResults' = Put(workflowResults, CurrentStep(c).output, fallbackResult)
       /\ writer' = Put(writer, CurrentStep(c).output, c)
       /\ results' = [results EXCEPT ![c] = StoreFallback(@, CurrentStep(c).id, fallbackResult)]
       /\ step' = [step EXCEPT ![c] = @ + 1]
       /\ failed' = [failed EXCEPT ![c] = @ \cup {CurrentStep(c).id}]
       /\ clock' = days

\* a variant of the guard check that treats a false guard as a failed step
SkipStepStoresFallback(c) ==
  /\ InLoop(c)
  /\ ~GuardHolds(c)
  /\ Fail(c)
  /\ UNCHANGED << ui, applied, invocations, config, pc, response, query, running, overlapped, tz,
                  random, drawn >>

\* the guard is false: continue
SkipStep(c) ==
  /\ InLoop(c)
  /\ ~GuardHolds(c)
  /\ step' = [step EXCEPT ![c] = @ + 1]
  /\ UNCHANGED << ui, applied, invocations, config, workflowResults, writer, pc, results, response, query,
                  failed, running, overlapped, tz, random, drawn, clock >>


\* executeStep, case 'model_call': executeModelCall
ExecuteModelCall(c) ==
  /\ InLoop(c)
  /\ CurrentStep(c).type = "model_call"
  /\ GuardHolds(c)
  /\ CASE CurrentStep(c).id = "query_refiner" ->
              Succeed(c, Str(simulateQueryRefiner(workflowResults)))
         [] CurrentStep(c).id = "disease_detection" ->
              Succeed(c, simulateDiseaseDetection(RandomAt(random, drawn, 1)))
         [] CurrentStep(c).id = "allocation_agent" ->
              Succeed(c, simulateAllocationAgent(workflowResults))
         [] CurrentStep(c).id = "response_formatter" ->
              IF simulateResponseFormatterThrows(workflowResults)
                THEN Fail(c)
                ELSE Succeed(c, Str(simulateResponseFormatter(workflowResults)))
         [] OTHER -> Fail(c)
  /\ drawn' = IF CurrentStep(c).id = "disease_detection"
                THEN (drawn + 1) % Len(random) ELSE drawn
  /\ invocations' = [invocations EXCEPT ![c] = Append(@, CurrentStep(c).id)]
  /\ UNCHANGED << ui, applied, config, pc, response, query, running, overlapped, tz, random >>

\* executeStep, case 'api_call': executeApiCall, which suspends at fetch
ExecuteApiCall(c) ==
  /\ InLoop(c)
  /\ CurrentStep(c).type = "api_call"
  /\ GuardHolds(c)
  /\ IF CurrentStep(c).id = "weather_api"
       THEN /\ pc' = [pc EXCEPT ![c] = "fetch"]
            /\ running' = 0
            /\ UNCHANGED << workflowResults, writer, results, step, failed, clock >>
       ELSE /\ Fail(c)
            /\ UNCHANGED << pc, running >>
  /\ invocations' =
       [invocations EXCEPT
          ![c] = IF CurrentStep(c).id = "weather_api"
                   THEN @ \o << CurrentStep(c).id, "fetch" >>
                   ELSE Append(@, CurrentStep(c).id)]
  /\ UNCHANGED << ui, applied, config, response, query, overlapped, tz, random, drawn >>

\* executeStep, case 'python': executePythonCode
ExecutePythonCode(c) ==
  /\ InLoop(c)
  /\ CurrentStep(c).type = "python"
  /\ GuardHolds(c)
  /\ IF CurrentStep(c).id = "soil_data"
       THEN /\ Succeed(c, generateSoilData(tz, random, drawn))
            /\ drawn' = (drawn + 3 * Len(generateSoilData(tz, random, drawn).v))
                           % Len(random)
       ELSE /\ Fail(c)
            /\ UNCHANGED drawn
  /\ invocations' = [invocations EXCEPT ![c] = Append(@, CurrentStep(c).id)]
  /\ UNCHANGED << ui, applied, config, pc, response, query, running, overlapped, tz, random >>

\* executeStep, default: throw new Error(`Unknown step type`)
UnknownStepType(c) ==
  /\ InLoop(c)
  /\ CurrentStep(c).type \notin {"model_call", "api_call", "python"}
  /\ GuardHolds(c)
  /\ Fail(c)
  /\ invocations' = [invocations EXCEPT ![c] = Append(@, CurrentStep(c).id)]
  /\ UNCHANGED << ui, applied, config, pc, response, query, running, overlapped, tz, random, drawn >>

\* getWeatherData resumes from `await fetch(...)`: a response with ok status,
\* a response with another status, or a rejected fetch
FetchOutcomes == {"ok", "http_error", "network_error"}

FetchSettled(c, outcome) ==
  /\ running = 0
  /\ pc[c] = "fetch"
  /\ IF outcome = "ok"
       THEN /\ pc' = [pc EXCEPT ![c] = "json"]
            /\ UNCHANGED << workflowResults, writer, results, step, failed, running,
                            clock >>
       ELSE \* the catch block returns the fallback record
            /\ Succeed(c, FallbackWeatherData)
            /\ pc' = [pc EXCEPT ![c] = "loop"]
            /\ running' = c
  /\ UNCHANGED << ui, applied, invocations, config, response, query, overlapped, tz, random, drawn >>

\* getWeatherData resumes from `await response.json()`: a parsed body, or a
\* rejection when the body cannot be read or parsed
Unreadable == [t |-> "unreadable"]

JsonSettled(c, body) ==
  /\ running = 0
  /\ pc[c] = "json"
  /\ Succeed(c, IF body = Unreadable THEN FallbackWeatherData ELSE body)
  /\ pc' = [pc EXCEPT ![c] = "loop"]
  /\ running' = c
  /\ UNCHANGED << ui, applied, invocations, config, response, query, overlapped, tz, random, drawn >>

\* the loop is over: return results
Return(c) ==
  /\ running = c
  /\ pc[c] = "loop"
  /\ step[c] > Len(config.workflow)
  /\ response' = [response EXCEPT ![c] = results[c]]
  /\ pc' = [pc EXCEPT ![c] = "returned"]
  /\ running' = 0
  /\ UNCHANGED << ui, applied, invocations, config, workflowResults, writer, step, results, query, failed,
                  overlapped, tz, random, drawn, clock >>

\* the steps a call takes on its own once it holds the thread
Proceed(c) ==
  \/ SkipStep(c)
  \/ ExecuteModelCall(c)
  \/ ExecuteApiCall(c)
  \/ ExecutePythonCode(c)
  \/ UnknownStepType(c)
  \/ Return(c)

Next ==
  \/ \E c \in Calls, q \in Queries : Execute(c, q)
  \/ \E c \in Calls : Proceed(c)
  \/ \E c \in Calls, outcome \in FetchOutcomes : FetchSettled(c, outcome)
  \/ \E c \in Calls, body \in ResponseBodies \cup {Unreadable} : JsonSettled(c, body)

Spec == Init /\ [][Next]_vars

\* the thread runs a call that holds it; nothing obliges the weather provider
\* to answer or the user to send a query
FairSpec == Spec /\ \A c \in Calls : WF_vars(Proceed(c))

(***************************************************************************)
(* Properties of execute.                                                  *)
(***************************************************************************)
Finished(c) == pc[c] \in {"returned", "rejected"}
InProgress(c) == pc[c] \in {"loop", "fetch", "json"}
ResponseFields == {"weather", "soil", "disease", "allocation", "final_answer"}
StepIds == {"query_refiner", "weather_api", "soil_data", "disease_detection",
            "allocation_agent", "response_formatter"}
Started(c) == results[c] # Undefined

\* the text of the response_formatter entry of the fallback table
FormatterFallbackText ==
  "Based on general farming practices, water your crops in the morning, "
    \o "check for pests regularly, and monitor soil moisture. Keep an eye on "
    \o "weather patterns and adjust your irrigation accordingly."

\* C1: every call to execute resolves to an AgentResponse and never rejects,
\* wherever the failure occurs: in a step handler, in a guard, at the access
\* to the configuration's step list, or in the fallback lookup of the
\* top-level catch.
ExecuteNeverRejects ==
  \A c \in Calls :
    /\ pc[c] # "rejected"
    /\ pc[c] = "returned" => response[c] # Undefined

\* C2: overlapping calls on the shared instance are isolated: a running call
\* reads only bag entries it wrote itself, and the allocation plan it returns
\* carries its own query.
ConcurrentCallsIsolated ==
  \A c \in Calls :
    /\ running = c =>
         \A k \in DOMAIN workflowResults : k \in DOMAIN writer /\ writer[k] = c
    /\ (pc[c] = "returned" /\ response[c].success
          /\ response[c].allocation # Undefined) =>
         response[c].allocation.request = query[c]

\* C3: every call eventually returns, whatever the weather provider does; no
\* call stays suspended at the weather_api step for ever.
EveryCallReturns ==
  \A c \in Calls : (pc[c] \in {"fetch", "json"}) ~> (pc[c] = "returned")

\* C4 as the code has it: when every step handler raises, the call returns
\* success=true with final_answer set to the response_formatter fallback and
\* the other fields unset; the other fallbacks exist in the bag only.
AllHandlersFail(c) == pc[c] = "returned" /\ failed[c] = StepIds

AllFailedKeepsOnlyFinalAnswer ==
  \A c \in Calls :
    AllHandlersFail(c) =>
      /\ response[c].success = TRUE
      /\ response[c].error = Undefined
      /\ response[c].final_answer = Str(FormatterFallbackText)
      /\ \A f \in ResponseFields \ {"final_answer"} : response[c][f] = Undefined

AllFailedReached == \E c \in Calls : AllHandlersFail(c)

\* C4 as stated: when every step handler raises, the call returns
\* success=true and every field of the response holds a fallback value.
AllFailedPopulatesEveryField ==
  \A c \in Calls :
    AllHandlersFail(c) =>
      /\ response[c].success = TRUE
      /\ \A f \in ResponseFields : response[c][f] # Undefined

\* C5: a call returns success=false exactly when the error is outside the
\* per-step try (a configuration whose step list cannot be read), then with
\* error set, no step run and final_answer the response_formatter fallback;
\* in every other case it returns success=true after the last step.
StepListUnreadable == ~config.hasWorkflow

SuccessFalseExactlyOnTopLevelError ==
  \A c \in Calls :
    Finished(c) =>
      /\ pc[c] = "returned"
      /\ IF StepListUnreadable
           THEN /\ response[c].success = FALSE
                /\ response[c].error # Undefined
                /\ response[c].final_answer = Str(FormatterFallbackText)
                /\ failed[c] = {}
                /\ \A f \in ResponseFields \ {"final_answer"} :
                     response[c][f] = Undefined
           ELSE /\ response[c].success = TRUE
                /\ response[c].error = Undefined
                /\ step[c] = Len(config.workflow) + 1

\* the fixed record: temp 28, humidity 65, pressure 1013, 'clear sky', wind
\* speed 3.5 (in tenths)
IsFixedWeatherRecord(w) ==
  /\ HasMain(w)
  /\ w.main.temp = 28
  /\ w.main.humidity = 65
  /\ w.main.pressure = 1013
  /\ HasDescription(w)
  /\ w.weather[1].description = "clear sky"
  /\ w.wind.speed10 = 35

\* the provider call fails: the transport fails, the status is not 2xx, or
\* the body cannot be read
WeatherProviderFails(c) ==
  \/ \E outcome \in {"network_error", "http_error"} : FetchSettled(c, outcome)
  \/ JsonSettled(c, Unreadable)

\* C6: whenever the weather provider call fails, the record stored in the bag
\* and in the response is the fixed fallback record, and it is the weather of
\* the response the call returns.
ProviderFailureGivesFixedRecord ==
  [][\A c \in Calls :
       /\ WeatherProviderFails(c) =>
            /\ IsFixedWeatherRecord(workflowResults'["weather_data"])
            /\ IsFixedWeatherRecord(results'[c].weather)
       /\ Return(c) => response'[c].weather = results[c].weather]_vars

FixedRecordReturned ==
  \E c \in Calls :
    /\ pc[c] = "returned"
    /\ IsFixedWeatherRecord(response[c].weather)
    /\ IsFixedWeatherRecord(workflowResults["weather_data"])

\* C7: the response only grows during a call: a field once set is neither
\* cleared nor overwritten by a later step, and is in the returned response.
ResponseOnlyGrows ==
  [][\A c \in Calls :
       /\ (InProgress(c) /\ ~Finished(c)') =>
            \A f \in ResponseFields :
              results[c][f] # Undefined => results'[c][f] = results[c][f]
       /\ (InProgress(c) /\ pc'[c] = "returned") =>
            \A f \in ResponseFields :
              results[c][f] # Undefined => response'[c][f] = results[c][f]]_vars

EarlierResultKeptAfterFailure ==
  \E c \in Calls :
    /\ pc[c] = "returned"
    /\ "response_formatter" \in failed[c]
    /\ response[c].weather # Undefined
    /\ response[c].soil # Undefined

\* C8: in a sequence of calls that do not overlap, each call starts with a
\* bag holding only its own inputs, reads only entries it wrote itself, and
\* its formatted answer mentions no disease report when its own
\* disease_detection step was skipped.
DiseasePhrases == {"I noticed signs of", "Your crops look healthy"}

LaterCallSeesNoEarlierOutput ==
  \A c \in Calls :
    ~overlapped =>
      /\ running = c =>
           /\ \A k \in DOMAIN workflowResults : k \in DOMAIN writer /\ writer[k] = c
           /\ workflowResults["inputs"].farmer_query = query[c]
           /\ step[c] = 1 => DOMAIN workflowResults = {"inputs"}
      /\ (pc[c] = "returned" /\ response[c].success
            /\ response[c].disease = Undefined
            /\ "disease_detection" \notin failed[c]) =>
           \A phrase \in DiseasePhrases :
             ~Includes(response[c].final_answer.v, phrase)

SecondCallAfterDiseaseReport ==
  /\ ~overlapped
  /\ pc[1] = "returned" /\ response[1].disease # Undefined
  /\ pc[2] = "returned" /\ response[2].disease = Undefined
  /\ response[2].final_answer # Str(FormatterFallbackText)
  /\ "disease_report" \notin DOMAIN workflowResults

\* the queries by the keywords they hold, whatever the letter case
WaterQueries == {QWater, QUpper}
FertilizerOnlyQueries == {QFertilizer}
NeitherQueries == {QIrrigation, QLeaf}

ExpectedPercent(q) ==
  IF q \in WaterQueries THEN 85 ELSE IF q \in FertilizerOnlyQueries THEN 75 ELSE 70

\* the allocation_agent handler has run in this step of call c
AllocationAgentRan(c) ==
  /\ InProgress(c)
  /\ results[c].allocation = Undefined
  /\ results'[c].allocation # Undefined

\* C9: whenever the allocation_agent handler runs, the plan's request is the
\* query it ran on, unchanged, and approved_percent is 85 for a query with a
\* water keyword (in any letter case), 75 for one with only a fertilizer
\* keyword and 70 for one with neither.
AllocationFollowsKeywords ==
  [][\A c \in Calls :
       AllocationAgentRan(c) =>
         LET q == workflowResults["inputs"].farmer_query
             plan == results'[c].allocation
         IN /\ q \in WaterQueries \cup FertilizerOnlyQueries \cup NeitherQueries
            /\ plan.request = q
            /\ plan.allocation.approved_percent = ExpectedPercent(q)
            /\ ~overlapped => q = query[c]]_vars

AllocationPlansReturned ==
  /\ \E c \in Calls :
       /\ pc[c] = "returned" /\ query[c] = QUpper
       /\ response[c].allocation # Undefined
       /\ response[c].allocation.request = QUpper
       /\ response[c].allocation.allocation.approved_percent = 85
  /\ \E c \in Calls :
       /\ pc[c] = "returned" /\ query[c] = QIrrigation
       /\ response[c].allocation # Undefined
       /\ response[c].allocation.allocation.approved_percent = 70

\* C10: generateSoilData returns exactly 12 samples: for each of the days 24
\* to 29 September 2025 one sample at '09:00' followed by one at '15:00', in
\* day order.
WindowDates ==
  << "2025-09-24", "2025-09-25", "2025-09-26", "2025-09-27", "2025-09-28",
     "2025-09-29" >>

SoilSamplesCoverWindow ==
  \A c \in Calls :
    (Started(c) /\ results[c].soil # Undefined /\ "soil_data" \notin failed[c]) =>
      LET data == results[c].soil.v
      IN /\ Len(data) = 2 * Len(WindowDates)
         /\ \A d \in 1..Len(WindowDates) :
              /\ data[2 * d - 1].date = WindowDates[d]
              /\ data[2 * d - 1].time = "09:00"
              /\ data[2 * d].date = WindowDates[d]
              /\ data[2 * d].time = "15:00"

\* call c takes a step of its loop in this transition
Advances(c) == InProgress(c) /\ step'[c] # step[c]

\* C12: within a call the steps are handled in configuration order, one at
\* a time: the index moves by one, and only when the current step was
\* skipped by its guard, completed or replaced by its fallback; while the
\* call is suspended at the weather fetch nothing of it moves, and it returns
\* only after the last step.
StepsInOrderOneAtATime ==
  [][\A c \in Calls :
       /\ (pc[c] = "idle" /\ step'[c] # step[c]) => step'[c] = 1
       /\ Advances(c) =>
            /\ step'[c] = step[c] + 1
            /\ step[c] <= Len(config.workflow)
            /\ \/ /\ InLoop(c) /\ ~GuardHolds(c)
                  /\ workflowResults' = workflowResults
               \/ /\ CurrentStep(c).output \in DOMAIN workflowResults'
                  /\ writer'[CurrentStep(c).output] = c
       /\ (Suspended(c) /\ Suspended(c)') =>
            /\ step'[c] = step[c]
            /\ results'[c] = results[c]
            /\ failed'[c] = failed[c]
       /\ (InProgress(c) /\ pc'[c] = "returned") =>
            step[c] = Len(config.workflow) + 1
       /\ (~InProgress(c) /\ pc[c] # "idle") => step'[c] = step[c]]_vars

SuspendedAtSecondStep ==
  \E c \in Calls :
    /\ pc[c] = "json"
    /\ step[c] = 2
    /\ results[c].weather = Undefined
    /\ "refined_query" \in DOMAIN workflowResults
    /\ "soil_data" \notin DOMAIN workflowResults

\* C13: when the guard of a step is false the step is skipped entirely: no
\* handler runs (no random draw, no clock reading), nothing is written to the
\* bag, no fallback is looked up, the response is unchanged, and the loop
\* goes on with the next step.
FalseGuardSkipsEntirely ==
  [][\A c \in Calls :
       (InLoop(c) /\ ~GuardHolds(c)) =>
         /\ step'[c] = step[c] + 1
         /\ pc'[c] = "loop"
         /\ running' = c
         /\ workflowResults' = workflowResults
         /\ writer' = writer
         /\ results' = results
         /\ failed' = failed
         /\ drawn' = drawn
         /\ clock' = clock]_vars

GuardedStepSkipped ==
  \E c \in Calls :
    /\ pc[c] = "returned"
    /\ config = AgentConfig(TRUE, TRUE)
    /\ query[c] = QWater
    /\ ~overlapped
    /\ "disease_report" \notin DOMAIN workflowResults
    /\ "disease_detection" \notin failed[c]
    /\ response[c].disease = Undefined
    /\ response[c].allocation # Undefined

\* the fixed mapping from step id to response field
FieldOfStep ==
  [weather_api |-> "weather", soil_data |-> "soil", disease_detection |-> "disease",
   allocation_agent |-> "allocation", response_formatter |-> "final_answer"]

\* the handler of the current step of call c returns in this transition
HandlerSucceeds(c) ==
  /\ Advances(c)
  /\ Suspended(c) \/ (InLoop(c) /\ GuardHolds(c))
  /\ failed'[c] = failed[c]

\* C14: when the handler of a step succeeds its result is stored in the bag
\* under step.output and copied into the response field the id mapping
\* gives; a step whose id the mapping does not know (query_refiner) writes
\* the bag only.
SuccessStoresResult ==
  [][\A c \in Calls :
       HandlerSucceeds(c) =>
         LET id == CurrentStep(c).id
             key == CurrentStep(c).output
         IN /\ key \in DOMAIN workflowResults'
            /\ \A k \in DOMAIN workflowResults \ {key} :
                 workflowResults'[k] = workflowResults[k]
            /\ IF id \in DOMAIN FieldOfStep
                 THEN /\ results'[c][FieldOfStep[id]] = workflowResults'[key]
                      /\ \A f \in DOMAIN results[c] \ {FieldOfStep[id]} :
                           results'[c][f] = results[c][f]
                 ELSE results'[c] = results[c]]_vars

MappedAndUnmappedStored ==
  \E c \in Calls :
    /\ pc[c] = "returned"
    /\ config = AgentConfig(TRUE, TRUE)
    /\ failed[c] = {}
    /\ ~overlapped
    /\ Get(workflowResults, "refined_query") =
         Str("resource allocation for fertilizer application required")
    /\ response[c].allocation # Undefined
    /\ response[c].weather = workflowResults["weather_data"]
    /\ response[c].soil = workflowResults["soil_data"]
    /\ response[c].allocation = workflowResults["allocation_plan"]
    /\ response[c].final_answer = workflowResults["final_answer"]

\* the handler of the current step of call c raises in this transition
HandlerRaises(c) == InProgress(c) /\ failed'[c] # failed[c]

\* C15: when the handler of a step raises, the error is caught at that step:
\* the step's fallback is stored in the bag under step.output, final_answer
\* is set to it if the step is response_formatter and no other field of the
\* response changes, and the loop goes on with the next step; a call with a
\* failed step still returns success=true after the last step.
FailureStoresFallbackAndContinues ==
  [][\A c \in Calls :
       /\ HandlerRaises(c) =>
            LET id == CurrentStep(c).id
                key == CurrentStep(c).output
            IN /\ failed'[c] = failed[c] \cup {id}
               /\ key \in DOMAIN workflowResults'
               /\ workflowResults'[key] =
                    getFallbackResult(id, workflowResults, Instant(clock'))
               /\ id = "query_refiner" =>
                    workflowResults'[key] =
                      Str("general agricultural advice and resource guidance needed")
               /\ results'[c] =
                    IF id = "response_formatter"
                      THEN [results[c] EXCEPT
                              !.final_answer = Str(FormatterFallbackText)]
                      ELSE results[c]
               /\ step'[c] = step[c] + 1
               /\ pc'[c] = "loop"
               /\ running' = c
       /\ (InProgress(c) /\ pc'[c] = "returned" /\ failed[c] # {}) =>
            /\ step[c] = Len(config.workflow) + 1
            /\ response'[c].success = TRUE
            /\ response'[c].error = Undefined]_vars

FailedStepThenLaterSteps ==
  \E c \in Calls :
    /\ pc[c] = "returned"
    /\ config = AgentConfig(FALSE, TRUE)
    /\ failed[c] = {"query_refiner", "weather_api", "soil_data", "response_formatter"}
    /\ workflowResults["weather_data"] =
         Str("Weather conditions are moderate. Check local forecasts for rain.")
    /\ response[c].weather = Undefined
    /\ response[c].final_answer = Str(FormatterFallbackText)

(***************************************************************************)
(* The private methods called directly, one call per behaviour: the        *)
(* arguments are drawn from the sets below and the result is recorded in   *)
(* `applied`.  The agent itself stays as constructed, on a host five hours *)
(* east of UTC: of the methods called here only the soil sample reads the  *)
(* zone, for its timestamp, and `Spec` runs generateSoilData in both zones. *)
(***************************************************************************)
MethodInit ==
  /\ config = AgentConfig(TRUE, TRUE)
  /\ workflowResults = << >>
  /\ writer = << >>
  /\ pc = [c \in Calls |-> "idle"]
  /\ step = [c \in Calls |-> 0]
  /\ results = [c \in Calls |-> Undefined]
  /\ response = [c \in Calls |-> Undefined]
  /\ query = [c \in Calls |-> ""]
  /\ failed = [c \in Calls |-> {}]
  /\ running = 0
  /\ overlapped = FALSE
  /\ tz = 5
  /\ random = << 0 >>
  /\ drawn = 0
  /\ clock = 0
  /\ applied = NotApplied
  /\ invocations = [c \in Calls |-> << >>]
  /\ Mounted

agent == << invocations, config, workflowResults, writer, pc, step, results, response, query,
            failed, running, overlapped, tz, random, drawn, clock >>

\* draws of Math.random() in thousandths, at and next to the ends of [0, 1)
\* and around the middle
Draws == {0, 1, 499, 500, 501, 998, 999}

\* one iteration of the inner loop of generateSoilData with the given draws
ApplySoilSample(r0, r10, rm) ==
  /\ applied = NotApplied
  /\ applied' = [fn |-> "SoilSample", r0 |-> r0, r10 |-> r10, rm |-> rm,
                 out |-> SoilSample(LocalMidnight(24, tz), 9, r0, r10, rm)]
  /\ UNCHANGED << agent, ui >>

\* guard texts, in and out of the grammar <identifier> contains '<literal>'
GuardTexts ==
  { "refined_query contains 'disease'",
    "refined_query contains 'DISEASE'",
    "refined_query  contains  'resource allocation'",
    "weather_data contains 'rain'",
    "disease_report contains 'blight'",
    "refined_query CONTAINS 'disease'",
    "refined_query has 'disease'",
    "refined_query contains disease",
    "refined_query contains ''",
    "refined_query contains'disease'" }

RefinedQueryValues ==
  { Str("disease detection and crop health analysis needed"),
    Str("Resource Allocation for water irrigation required"),
    Str("") }

WeatherDataValues ==
  { Undefined,
    Str("Heavy RAIN expected"),
    Str("Weather conditions are moderate. Check local forecasts for rain."),
    Str("clear"),
    FallbackWeatherData }

\* a bag with refined_query bound, and weather_data bound unless undefined
GuardBag(refined, weather) ==
  LET base == Put(FreshBag(QWater), "refined_query", refined)
  IN IF weather = Undefined THEN base ELSE Put(base, "weather_data", weather)

ApplyEvaluateCondition(condition, refined, weather) ==
  /\ applied = NotApplied
  /\ applied' = [fn |-> "evaluateCondition", condition |-> condition,
                 bag |-> GuardBag(refined, weather),
                 out |-> evaluateCondition(condition, GuardBag(refined, weather))]
  /\ UNCHANGED << agent, ui >>

(***************************************************************************)
(* interpolateTemplate.  Values it walks are tagged trees: a string, a     *)
(* number, an array, or an object with its keys in insertion order (the    *)
(* order JSON.stringify writes them in).                                   *)
(***************************************************************************)
Num(n) == [t |-> "number", v |-> n]
Obj(keys, at) == [t |-> "object", keys |-> keys, at |-> at]

Range(seq) == {seq[i] : i \in 1..Len(seq)}

\* value?.[key]: a member of an object, an element or the length of an
\* array or a string; undefined otherwise (a method of the prototype is a
\* function, which is substituted like undefined)
Member(value, key) ==
  CASE value.t = "object" ->
         IF key \in Range(value.keys) THEN value.at[key] ELSE Undefined
    [] value.t = "array" ->
         IF key = "length" THEN Num(Len(value.v))
         ELSE IF \E i \in 1..Len(value.v) : ToString(i - 1) = key
           THEN value.v[CHOOSE i \in 1..Len(value.v) : ToString(i - 1) = key]
         ELSE Undefined
    [] value.t = "string" ->
         IF key = "length" THEN Num(Len(value.v))
         ELSE IF \E i \in 1..Len(value.v) : ToString(i - 1) = key
           THEN Str(CharAt(value.v, CHOOSE i \in 1..Len(value.v) : ToString(i - 1) = key))
         ELSE Undefined
    [] OTHER -> Undefined

\* for (const key of keys) value = value?.[key]
RECURSIVE Walk(_, _)
Walk(value, keys) ==
  IF keys = << >> THEN value ELSE Walk(Member(value, Head(keys)), Tail(keys))

\* the first position at or after i where s has the character ch, or Len(s) + 1
RECURSIVE IndexOfChar(_, _, _)
IndexOfChar(s, ch, i) ==
  IF i > Len(s) \/ CharAt(s, i) = ch THEN i ELSE IndexOfChar(s, ch, i + 1)

\* path.split('.')
RECURSIVE Split(_)
Split(path) ==
  LET d == IndexOfChar(path, ".", 1)
  IN IF d > Len(path) THEN << path >>
     ELSE << SubSeq(path, 1, d - 1) >> \o Split(SubSeq(path, d + 1, Len(path)))

\* JSON.stringify(value); the result is undefined for undefined.  An
\* undefined member of an object is left out, an undefined element of an
\* array is written null
RECURSIVE JSONStringify(_)
RECURSIVE JSONMembers(_, _)
RECURSIVE JSONElements(_, _)
JSONStringify(value) ==
  CASE value.t = "string" -> Str("\"" \o value.v \o "\"")
    [] value.t = "number" -> Str(ToString(value.v))
    [] value.t = "object" -> Str("{" \o JSONMembers(value, 1) \o "}")
    [] value.t = "array" -> Str("[" \o JSONElements(value.v, 1) \o "]")
    [] OTHER -> Undefined

JSONMembers(object, i) ==
  IF i > Len(object.keys) THEN ""
  ELSE LET text == JSONStringify(object.at[object.keys[i]])
           rest == JSONMembers(object, i + 1)
       IN IF text = Undefined THEN rest
          ELSE "\"" \o object.keys[i] \o "\":" \o text.v
                 \o (IF rest = "" THEN "" ELSE "," \o rest)

JSONElements(items, i) ==
  IF i > Len(items) THEN ""
  ELSE LET text == JSONStringify(items[i])
       IN (IF text = Undefined THEN "null" ELSE text.v)
            \o (IF i < Len(items) THEN "," \o JSONElements(items, i + 1) ELSE "")

\* a variant that substitutes the empty string for an unresolved path
SubstitutionBlanksUnresolved(value, match) ==
  IF value.t = "string" THEN value.v
  ELSE IF JSONStringify(value) # Undefined THEN JSONStringify(value).v
  ELSE ""

\* typeof value === 'string' ? value : JSON.stringify(value) || match
Substitution(value, match) ==
  IF value.t = "string" THEN value.v
  ELSE IF JSONStringify(value) # Undefined THEN JSONStringify(value).v
  ELSE match

\* template.replace(/\{\{([^}]+)\}\}/g, ...) from position i on: a match at
\* i is `{{`, one or more characters other than `}`, and `}}`
RECURSIVE ReplaceFrom(_, _, _)
ReplaceFrom(template, bag, i) ==
  IF i > Len(template) THEN ""
  ELSE LET close == IndexOfChar(template, "}", i + 2)
       IN IF /\ i + 1 <= Len(template)
             /\ SubSeq(template, i, i + 1) = "{{"
             /\ close > i + 2
             /\ close + 1 <= Len(template)
             /\ SubSeq(template, close, close + 1) = "}}"
            THEN Substitution(
                   Walk(bag, Split(Trim(SubSeq(template, i + 2, close - 1)))),
                   SubSeq(template, i, close + 1))
                   \o ReplaceFrom(template, bag, close + 2)
            ELSE CharAt(template, i) \o ReplaceFrom(template, bag, i + 1)

interpolateTemplate(template, bag) == ReplaceFrom(template, bag, 1)

\* the bag at the start of a call, and a bag after some steps, as tagged trees
StartBag ==
  Obj(<< "inputs" >>,
      [inputs |-> Obj(<< "farmer_query" >>, [farmer_query |-> Str("I need water")])])

CraftedBag ==
  Obj(<< "inputs", "refined_query", "weather", "soil_data" >>,
      [inputs |-> Obj(<< "farmer_query" >>, [farmer_query |-> Str("I need water")]),
       refined_query |-> Str(""),
       weather |->
         Obj(<< "main" >>,
             [main |-> Obj(<< "temp", "humidity" >>,
                           [temp |-> Num(28), humidity |-> Num(65)])]),
       soil_data |-> Arr(<< Obj(<< "moisture" >>, [moisture |-> Num(22)]) >>)])

TemplateBags == << StartBag, CraftedBag >>

Templates ==
  << "Temp: {{weather.main.temp}}",
     "Q: {{inputs.farmer_query}}!",
     "{{weather.main}}",
     "{{allocation_plan.request}} later",
     "{{weather.main.temp}} and {{missing}} and {{inputs.farmer_query}}",
     "{{ weather.main.humidity }}",
     "no placeholders",
     "{{weather.main.temp.x.y}}",
     "{{refined_query}}|",
     "{{soil_data}}",
     "{{}} {{weather.main.temp}",
     "{{soil_data.0.moisture}}%" >>

ApplyInterpolateTemplate(t, b) ==
  /\ applied = NotApplied
  /\ applied' = [fn |-> "interpolateTemplate", template |-> t, bag |-> b,
                 out |-> interpolateTemplate(Templates[t], TemplateBags[b])]
  /\ UNCHANGED << agent, ui >>

\* queries for the refiner: one keyword, several keywords of different
\* categories, upper case, a keyword inside a longer word, and none
RefinerQueries ==
  { "will it rain tomorrow", "Barsat kab hogi", "WEATHER today",
    "I need water", "paani chahiye", "irrigation schedule",
    "my leaf has spots", "crop disease", "need khad", "Fertilizer dose",
    "soil test", "mitti kaisi hai", "hello",
    "rain water for soil", "water and fertilizer", "leaf fertilizer",
    "khad for mitti", "disease after RAIN", "soil DISEASE", "training" }

ApplyQueryRefiner(farmerQuery) ==
  /\ applied = NotApplied
  /\ applied' = [fn |-> "simulateQueryRefiner", farmerQuery |-> farmerQuery,
                 out |-> simulateQueryRefiner(FreshBag(farmerQuery))]
  /\ UNCHANGED << agent, ui >>

\* what the allocation agent can find in the bag
AllocationWeatherValues ==
  { Undefined,
    Str("Weather conditions are moderate. Check local forecasts for rain."),
    FallbackWeatherData,
    WeatherData(35, 85, 1005, "Rain", "light rain", 52),
    WeatherData(31, 40, 1010, "Clear", "clear sky", 20),
    WeatherData(30, 40, 1010, "Clear", "clear sky", 20),
    WeatherData(0, 0, 1020, "Clear", "clear sky", 10),
    [t |-> "object", cod |-> 200] }

AllocationSoilValues ==
  { Undefined,
    Arr(<< >>),
    Arr(<< SoilSample(LocalMidnight(24, 0), 9, 0, 0, 0),
           SoilSample(LocalMidnight(24, 0), 15, 999, 999, 999) >>),
    Arr(<< SoilSample(LocalMidnight(24, 0), 9, 999, 999, 999),
           SoilSample(LocalMidnight(24, 0), 15, 0, 0, 125) >>) }

\* other entries of the bag, which the allocation agent does not read
OtherEntries ==
  { << >>,
    [refined_query |-> Str("resource allocation for water irrigation required"),
     disease_report |-> diseases[1]] }

AllocationBag(farmerQuery, weather, soil, others) ==
  LET b0 == FreshBag(farmerQuery)
      b1 == IF weather = Undefined THEN b0 ELSE Put(b0, "weather_data", weather)
      b2 == IF soil = Undefined THEN b1 ELSE Put(b1, "soil_data", soil)
  IN [k \in DOMAIN b2 \cup DOMAIN others |->
        IF k \in DOMAIN b2 THEN b2[k] ELSE others[k]]

ApplyAllocationAgent(farmerQuery, weather, soil, others) ==
  /\ applied = NotApplied
  /\ applied' = [fn |-> "simulateAllocationAgent", farmerQuery |-> farmerQuery,
                 weather |-> weather, soil |-> soil, others |-> others,
                 out |-> simulateAllocationAgent(
                           AllocationBag(farmerQuery, weather, soil, others))]
  /\ UNCHANGED << agent, ui >>

\* what the response formatter can find in the bag: a query of each
\* acknowledgement, no weather / the fallback-table text / records that are
\* mild, hot and humid, cool, and zero; no report / a disease / a healthy
\* crop / the fallback-table report; no plan / a computed plan / the
\* fallback-table plan
FormatterQueries == {"will it rain tomorrow", QWater, QFertilizer, QLeaf, ""}

FormatterWeatherValues ==
  { Undefined,
    Str("Weather conditions are moderate. Check local forecasts for rain."),
    FallbackWeatherData,
    WeatherData(35, 85, 1005, "Rain", "light rain", 52),
    WeatherData(15, 50, 1015, "Clouds", "few clouds", 20),
    WeatherData(0, 0, 1020, "Clear", "clear sky", 10) }

FormatterDiseaseValues ==
  { Undefined, diseases[1], diseases[3],
    getFallbackResult("disease_detection", << >>, 0) }

\* no soil data, no sample, generated samples, and the fallback-table sample
FormatterSoilValues ==
  AllocationSoilValues \cup {getFallbackResult("soil_data", << >>, Instant(0))}

FormatterPlans == {"none", "computed", "fallback"}

FormatterBag(farmerQuery, weather, soil, disease, plan) ==
  LET b0 == FreshBag(farmerQuery)
      b1 == IF weather = Undefined THEN b0 ELSE Put(b0, "weather_data", weather)
      b2 == IF soil = Undefined THEN b1 ELSE Put(b1, "soil_data", soil)
      b3 == IF disease = Undefined THEN b2 ELSE Put(b2, "disease_report", disease)
  IN CASE plan = "computed" -> Put(b3, "allocation_plan", simulateAllocationAgent(b3))
       [] plan = "fallback" ->
            Put(b3, "allocation_plan", getFallbackResult("allocation_agent", b3, 0))
       [] OTHER -> b3

ApplyResponseFormatter(farmerQuery, weather, soil, disease, plan) ==
  LET bag == FormatterBag(farmerQuery, weather, soil, disease, plan)
  IN /\ applied = NotApplied
     /\ applied' = [fn |-> "simulateResponseFormatter", bag |-> bag,
                    threw |-> simulateResponseFormatterThrows(bag),
                    out |-> IF simulateResponseFormatterThrows(bag)
                              THEN Undefined
                              ELSE Str(simulateResponseFormatter(bag))]
     /\ UNCHANGED << agent, ui >>

\* getFallbackResult on the bag of a call with the given query, when the
\* host's clock reads `days` days after the first reading
ApplyGetFallbackResult(stepId, farmerQuery, others, days) ==
  /\ applied = NotApplied
  /\ ~getFallbackResultThrows(config)
  /\ applied' = [fn |-> "getFallbackResult", stepId |-> stepId,
                 farmerQuery |-> farmerQuery, others |-> others, days |-> days,
                 out |-> getFallbackResult(
                           stepId,
                           AllocationBag(farmerQuery, Undefined, Undefined, others),
                           Instant(days))]
  /\ UNCHANGED << agent, ui >>

MethodNext ==
  \/ \E farmerQuery \in FormatterQueries, weather \in FormatterWeatherValues,
        soil \in FormatterSoilValues, disease \in FormatterDiseaseValues,
        plan \in FormatterPlans :
       ApplyResponseFormatter(farmerQuery, weather, soil, disease, plan)
  \/ \E stepId \in StepIds \cup {"crop_planner"}, farmerQuery \in Queries \cup {""},
        others \in OtherEntries, days \in 0..MaxClock :
       ApplyGetFallbackResult(stepId, farmerQuery, others, days)
  \/ \E r0 \in Draws, r10 \in Draws, rm \in Draws : ApplySoilSample(r0, r10, rm)
  \/ \E condition \in GuardTexts, refined \in RefinedQueryValues,
        weather \in WeatherDataValues :
       ApplyEvaluateCondition(condition, refined, weather)
  \/ \E t \in 1..Len(Templates), b \in 1..Len(TemplateBags) :
       ApplyInterpolateTemplate(t, b)
  \/ \E farmerQuery \in RefinerQueries : ApplyQueryRefiner(farmerQuery)
  \/ \E farmerQuery \in Queries, weather \in AllocationWeatherValues,
        soil \in AllocationSoilValues, others \in OtherEntries :
       ApplyAllocationAgent(farmerQuery, weather, soil, others)

MethodSpec == MethodInit /\ [][MethodNext]_vars

(***************************************************************************)
(* Properties of the private methods.                                      *)
(***************************************************************************)
\* C11: for every sample and every outcome of the draws, after rounding to
\* 2 decimals t0 is in [293, 300], t10 is less than t0 by between 1.5 and 3,
\* and moisture is in [0.18, 0.26] (t0 and t10 in hundredths of a kelvin,
\* moisture in hundredths).
SoilSampleWithinRanges ==
  applied.fn = "SoilSample" =>
    LET sample == applied.out
    IN /\ 29300 <= sample.t0 /\ sample.t0 <= 30000
       /\ sample.t10 < sample.t0
       /\ 150 <= sample.t0 - sample.t10 /\ sample.t0 - sample.t10 <= 300
       /\ 18 <= sample.moisture /\ sample.moisture <= 26

SoilSampleAtTheEnds ==
  /\ applied.fn = "SoilSample"
  /\ applied.r0 = 0 /\ applied.r10 = 999 /\ applied.rm = 999
  /\ applied.out.t0 = 29300
  /\ applied.out.t0 - applied.out.t10 = 300
  /\ applied.out.moisture = 26

\* the guard texts of the grammar, with their identifier and literal
GrammarGuards ==
  { [text |-> "refined_query contains 'disease'",
     identifier |-> "refined_query", literal |-> "disease"],
    [text |-> "refined_query contains 'DISEASE'",
     identifier |-> "refined_query", literal |-> "DISEASE"],
    [text |-> "refined_query  contains  'resource allocation'",
     identifier |-> "refined_query", literal |-> "resource allocation"],
    [text |-> "weather_data contains 'rain'",
     identifier |-> "weather_data", literal |-> "rain"],
    [text |-> "disease_report contains 'blight'",
     identifier |-> "disease_report", literal |-> "blight"] }

GuardApplied == applied.fn = "evaluateCondition"
GuardOf(text) == CHOOSE g \in GrammarGuards : g.text = text
InGrammar(text) == \E g \in GrammarGuards : g.text = text
Bound(bag, identifier) == identifier \in DOMAIN bag
ContainsIgnoringCase(value, literal) ==
  Includes(ToLowerCase(value), ToLowerCase(literal))

\* C16 as the code has it: for a guard of the grammar whose identifier is
\* bound, evaluateCondition returns, when the value is a string, true exactly
\* when the string contains the literal case-insensitively, and true when
\* the value is not a string.
BoundGuardDecidedByStringValue ==
  (GuardApplied /\ InGrammar(applied.condition)) =>
    LET g == GuardOf(applied.condition)
    IN Bound(applied.bag, g.identifier) =>
         LET value == applied.bag[g.identifier]
         IN IF value.t = "string"
              THEN applied.out = ContainsIgnoringCase(value.v, g.literal)
              ELSE applied.out = TRUE

RainGuardOnStringValue ==
  /\ GuardApplied
  /\ applied.condition = "weather_data contains 'rain'"
  /\ Bound(applied.bag, "weather_data")
  /\ applied.bag["weather_data"] = Str("Heavy RAIN expected")
  /\ applied.out = TRUE

\* C16 as stated: for a guard of the grammar whose identifier is bound,
\* evaluateCondition returns true exactly when the bound value is a string
\* that contains the literal case-insensitively.
BoundGuardTrueOnlyForContainingString ==
  (GuardApplied /\ InGrammar(applied.condition)) =>
    LET g == GuardOf(applied.condition)
    IN Bound(applied.bag, g.identifier) =>
         LET value == applied.bag[g.identifier]
         IN applied.out =
              (value.t = "string" /\ ContainsIgnoringCase(value.v, g.literal))

ExpectedOnStartBag ==
  << "Temp: {{weather.main.temp}}",
     "Q: I need water!",
     "{{weather.main}}",
     "{{allocation_plan.request}} later",
     "{{weather.main.temp}} and {{missing}} and I need water",
     "{{ weather.main.humidity }}",
     "no placeholders",
     "{{weather.main.temp.x.y}}",
     "{{refined_query}}|",
     "{{soil_data}}",
     "{{}} {{weather.main.temp}",
     "{{soil_data.0.moisture}}%" >>

ExpectedOnCraftedBag ==
  << "Temp: 28",
     "Q: I need water!",
     "{\"temp\":28,\"humidity\":65}",
     "{{allocation_plan.request}} later",
     "28 and {{missing}} and I need water",
     "65",
     "no placeholders",
     "{{weather.main.temp.x.y}}",
     "|",
     "[{\"moisture\":22}]",
     "{{}} {{weather.main.temp}",
     "22%" >>

\* C18: interpolateTemplate replaces each placeholder on its own by walking
\* the bag from its root: a string verbatim, another defined value by its
\* JSON text, and a path that is undefined at some step (a forward reference
\* included) leaves the placeholder as it is; the text around is unchanged.
PlaceholdersReplacedFromBag ==
  applied.fn = "interpolateTemplate" =>
    applied.out = (IF applied.bag = 1 THEN ExpectedOnStartBag
                                      ELSE ExpectedOnCraftedBag)[applied.template]

MixedTemplateInterpolated ==
  /\ applied.fn = "interpolateTemplate"
  /\ Templates[applied.template] =
       "{{weather.main.temp}} and {{missing}} and {{inputs.farmer_query}}"
  /\ TemplateBags[applied.bag] = CraftedBag
  /\ applied.out = "28 and {{missing}} and I need water"

\* the categories of the refiner in their order, each with its keywords
RefinerCategories ==
  << [keywords |-> {"barsat", "rain", "weather", "[mausam]"},
      phrase |-> "weather forecast and precipitation analysis needed"],
     [keywords |-> {"paani", "water", "[pani]", "irrigation"},
      phrase |-> "resource allocation for water irrigation required"],
     [keywords |-> {"disease", "[bimari]", "leaf", "[patta]"},
      phrase |-> "disease detection and crop health analysis needed"],
     [keywords |-> {"fertilizer", "khad", "[khaad]"},
      phrase |-> "resource allocation for fertilizer application required"],
     [keywords |-> {"soil", "mitti", "[mitti]"},
      phrase |-> "soil analysis and moisture monitoring needed"] >>

CategoryMatches(i, farmerQuery) ==
  \E k \in RefinerCategories[i].keywords : Includes(ToLowerCase(farmerQuery), k)

\* C19: the refiner returns the phrase of the first category, in the order
\* weather, water, disease, fertilizer, soil, one of whose keywords occurs in
\* the query whatever the letter case, and the generic phrase when none does.
RefinerFirstCategoryWins ==
  applied.fn = "simulateQueryRefiner" =>
    LET matching == {i \in 1..Len(RefinerCategories) :
                       CategoryMatches(i, applied.farmerQuery)}
    IN IF matching = {}
         THEN applied.out = "general agricultural advice and resource guidance needed"
         ELSE \E i \in matching :
                /\ \A j \in matching : i <= j
                /\ applied.out = RefinerCategories[i].phrase

SeveralCategoriesRefined ==
  /\ applied.fn = "simulateQueryRefiner"
  /\ applied.farmerQuery = "rain water for soil"
  /\ applied.out = "weather forecast and precipitation analysis needed"

\* what the plan must hold, from the query, the weather and the soil alone
ExpectedPriority(weather) ==
  IF weather.t = "object" /\ "main" \in DOMAIN weather /\ weather.main.temp > 30
    THEN "High" ELSE "Medium"

ExpectedSoilMoisture(soil) ==
  IF soil.t = "array" /\ Len(soil.v) > 0 THEN soil.v[Len(soil.v)].moisture ELSE 22

ExpectedRecommendation(farmerQuery) ==
  IF farmerQuery \in WaterQueries
    THEN "Increase irrigation frequency due to high temperature"
    ELSE "Apply during cooler hours"

\* C20: the allocation plan is a function of the query, the weather and the
\* soil in the bag and of nothing else: approved_percent follows the
\* classification of the query, priority is High iff the temperature is
\* above 30, soil_moisture is that of the last sample or 0.22 without soil
\* data, and the recommendation follows the water classification.
AllocationPlanDetermined ==
  applied.fn = "simulateAllocationAgent" =>
    /\ applied.out.request = applied.farmerQuery
    /\ applied.out.allocation.approved_percent = ExpectedPercent(applied.farmerQuery)
    /\ applied.out.allocation.priority = ExpectedPriority(applied.weather)
    /\ applied.out.analysis.soil_moisture = ExpectedSoilMoisture(applied.soil)
    /\ applied.out.analysis.recommendation = ExpectedRecommendation(applied.farmerQuery)

HotDayPlanWithOtherEntries ==
  /\ applied.fn = "simulateAllocationAgent"
  /\ applied.others # << >>
  /\ applied.farmerQuery = QFertilizer
  /\ applied.weather = WeatherData(31, 40, 1010, "Clear", "clear sky", 20)
  /\ applied.out.allocation.priority = "High"
  /\ applied.out.allocation.approved_percent = 75
  /\ applied.out.analysis.soil_moisture = 19

(***************************************************************************)
(* Properties of execute that need the record of invocations.              *)
(***************************************************************************)
Occurrences(seq, x) == Cardinality({i \in 1..Len(seq) : seq[i] = x})

\* C23: no retries: within one call of execute the handler of each step is
\* invoked at most once and the weather provider is requested at most once;
\* a step whose handler raised was invoked exactly once, so its outcome is
\* the one fallback substitution and the handler is not invoked again.
NoRetries ==
  \A c \in Calls :
    /\ \A x \in StepIds \cup {"fetch"} : Occurrences(invocations[c], x) <= 1
    /\ \A id \in failed[c] : Occurrences(invocations[c], id) = 1

\* a call that requested the provider, whose formatter then raised, and that
\* returned after all six steps were run
FailedStepRunOnce ==
  \E c \in Calls :
    /\ pc[c] = "returned"
    /\ "response_formatter" \in failed[c]
    /\ Occurrences(invocations[c], "fetch") = 1
    /\ Len(invocations[c]) >= 6

(***************************************************************************)
(* More properties of the private methods.                                 *)
(***************************************************************************)
FormatterReturned == applied.fn = "simulateResponseFormatter" /\ ~applied.threw

\* C21: the response formatter returns the generic paragraph exactly when
\* the text assembled from the acknowledgement, weather, soil, disease and
\* allocation fragments is shorter than 50 characters; an assembled text of
\* 50 characters or more is returned with the farming tips appended.
GenericParagraphIffShort ==
  FormatterReturned =>
    LET text == AssembledResponse(applied.bag)
    IN /\ (applied.out = Str(GenericAdvice)) <=> (Len(text) < 50)
       /\ (Len(text) >= 50) => applied.out = Str(text \o FarmingTips)

\* the shortest assembled text with a fragment after the acknowledgement (62
\* characters) is returned with the tips
ShortestDataTextReturned ==
  /\ FormatterReturned
  /\ AssembledResponse(applied.bag)
       = "Based on your farming question, Your soil moisture is at 20%. "
  /\ Len(AssembledResponse(applied.bag)) = 62
  /\ applied.out = Str("Based on your farming question, Your soil moisture is at 20%. "
                         \o FarmingTips)

\* C22: the fallback value of a step id is a fixed constant: getFallbackResult
\* returns, for a given step id, the same value whatever the farmer query,
\* the other contents of the bag and the date of the call.
FallbackValueFixedPerStep ==
  applied.fn = "getFallbackResult" =>
    applied.out = getFallbackResult(applied.stepId, FreshBag(QWater), Instant(0))

\* C27: when the bag holds a weather record with numeric main.temp and
\* main.humidity, the plan's weather.temperature_c and
\* weather.humidity_percent are those values, a reading of 0 included; the
\* defaults 28 and 65 appear only when the record or its main part is absent.
PlanReportsWeatherReadings ==
  applied.fn = "simulateAllocationAgent" =>
    IF HasMain(applied.weather)
      THEN /\ applied.out.weather.temperature_c = applied.weather.main.temp
           /\ applied.out.weather.humidity_percent = applied.weather.main.humidity
      ELSE /\ applied.out.weather.temperature_c = 28
           /\ applied.out.weather.humidity_percent = 65

(***************************************************************************)
(* The chat component (SmartKissanChat).  An event handler runs to its     *)
(* end; handleSendMessage stops at `await smartKissanAgent.execute(...)`   *)
(* and its rest runs when the agent call settles.  The handler reads       *)
(* `language` from the render it was created in, the one of the moment of  *)
(* the send.  Speech recognition is left out: the input field is enabled.  *)
(***************************************************************************)
\* what the user types into the input field
InputTexts == {"", "  ", QIrrigation}

\* what the speech recognition hands over with an uploaded image (here an
\* empty transcript), and the text sent when it fails or is missing
ImageTexts == {"", "Image uploaded for analysis"}

\* how the agent call settles: resolved with a final_answer, resolved
\* without one, or rejected
AgentOutcomes == {"final_answer", "no_final_answer", "rejected"}

AnalysedText(lang) ==
  IF lang = "en"
    THEN "I've analyzed your request and gathered the latest data. Here's what I found:"
    ELSE "[ur] Main ne aap ki darkhwast ka tajzia kiya hai."

TroubleText(lang) ==
  IF lang = "en"
    THEN "I'm having trouble connecting right now, but based on usual conditions, "
           \o "water your crops in the morning, check for pests, and avoid over-irrigation."
    ELSE "[ur] Filwaqt connection mein masla hai."

\* responseContent, or the content of the catch block's message
ReplyContent(outcome, lang) ==
  CASE outcome = "final_answer" -> GenericAdvice
    [] outcome = "no_final_answer" -> AnalysedText(lang)
    [] OTHER -> TroubleText(lang)

\* lines 85-108: up to the await
handleSendMessage(text, messageType, image) ==
  /\ Len(sends) < MaxSends
  /\ IF Trim(text) = "" /\ ~image
       THEN /\ sends' = Append(sends, [text |-> text, image |-> image,
                                        language |-> language, status |-> "ignored"])
            /\ UNCHANGED << messages, inputText, isLoading, processingAgent >>
       ELSE /\ messages' = Append(messages,
                              Message("user", text, messageType, image, Len(sends) + 1))
            /\ inputText' = ""
            /\ isLoading' = TRUE
            /\ processingAgent' = TRUE
            /\ sends' = Append(sends, [text |-> text, image |-> image,
                                        language |-> language, status |-> "awaiting"])
  /\ UNCHANGED << language, agent, applied >>

\* onChange of the input field
ChangeInput(text) ==
  /\ text # inputText
  /\ inputText' = text
  /\ UNCHANGED << messages, language, isLoading, processingAgent, sends, agent, applied >>

\* the send button, disabled={!inputText.trim() || isLoading}
SendButton ==
  /\ Trim(inputText) # ""
  /\ ~isLoading
  /\ handleSendMessage(inputText, "text", FALSE)

\* onKeyPress: e.key === 'Enter' && handleSendMessage(inputText)
EnterKey == handleSendMessage(inputText, "text", FALSE)

\* the quick-action buttons
QuickAction(text) == handleSendMessage(text, "text", FALSE)

\* handleImageUpload, once the file is read
ImageUpload(text) == handleSendMessage(text, "image+speech", TRUE)

\* toggleLanguage, the render and the effect of useEffect([language])
toggleLanguage ==
  /\ language' = (IF language = "en" THEN "ur" ELSE "en")
  /\ messages' = << WelcomeMessage(language') >>
  /\ UNCHANGED << inputText, isLoading, processingAgent, sends, agent, applied >>

\* a variant of the rest of handleSendMessage whose catch block appends nothing
AgentSettlesSilentOnRejection(n, outcome) ==
  /\ n \in 1..Len(sends)
  /\ sends[n].status = "awaiting"
  /\ processingAgent' = FALSE
  /\ messages' = IF outcome = "rejected" THEN messages
                  ELSE Append(messages,
                         Message("smartkissan", ReplyContent(outcome, sends[n].language),
                                 "", FALSE, n))
  /\ isLoading' = FALSE
  /\ sends' = [sends EXCEPT ![n].status = "settled"]
  /\ UNCHANGED << inputText, language, agent, applied >>

\* lines 109-143: the rest of handleSendMessage, when the agent call settles
AgentSettles(n, outcome) ==
  /\ n \in 1..Len(sends)
  /\ sends[n].status = "awaiting"
  /\ processingAgent' = FALSE
  /\ messages' = Append(messages,
                    Message("smartkissan", ReplyContent(outcome, sends[n].language),
                            "", FALSE, n))
  /\ isLoading' = FALSE
  /\ sends' = [sends EXCEPT ![n].status = "settled"]
  /\ UNCHANGED << inputText, language, agent, applied >>

UINext ==
  \/ \E text \in InputTexts : ChangeInput(text)
  \/ SendButton
  \/ EnterKey
  \/ \E text \in {QWater, QFertilizer} : QuickAction(text)
  \/ \E text \in ImageTexts : ImageUpload(text)
  \/ toggleLanguage
  \/ \E n \in 1..MaxSends, outcome \in AgentOutcomes : AgentSettles(n, outcome)

\* the component reads neither the agent's state nor the host's time zone
UIInit == MethodInit

UISpec == UIInit /\ [][UINext]_vars

(***************************************************************************)
(* Properties of the chat component.                                       *)
(***************************************************************************)
InFlight(n) == n \in 1..Len(sends) /\ sends[n].status = "awaiting"

\* C24: isLoading and processingAgent are true whenever at least one agent
\* call started by handleSendMessage is still in flight, whatever the order
\* of sends from the input field, the Enter key and the quick-action buttons.
LoadingWhileAnyCallInFlight ==
  (\E n \in 1..MaxSends : InFlight(n)) => (isLoading /\ processingAgent)

IsPrefix(s, t) == Len(s) <= Len(t) /\ SubSeq(t, 1, Len(s)) = s

\* C25: an invocation of handleSendMessage with non-blank text or an image
\* appends exactly one user message; when its agent call settles, resolved
\* or rejected, exactly one smartkissan reply is appended after it and
\* isLoading is set to false; an invocation with blank text and no image
\* appends nothing and starts no agent call; a settled invocation appends
\* nothing more.
SendAppendsMessageThenReply ==
  [][ /\ \A n \in 1..Len(sends') :
           n > Len(sends) =>
             IF Trim(sends'[n].text) = "" /\ ~sends'[n].image
               THEN /\ sends'[n].status = "ignored"
                    /\ messages' = messages
                    /\ isLoading' = isLoading
               ELSE /\ sends'[n].status = "awaiting"
                    /\ Len(messages') = Len(messages) + 1
                    /\ IsPrefix(messages, messages')
                    /\ messages'[Len(messages')].type = "user"
                    /\ messages'[Len(messages')].content = sends'[n].text
                    /\ messages'[Len(messages')].send = n
      /\ \A n \in 1..Len(sends) :
           /\ sends[n].status = "awaiting" /\ sends'[n].status # "awaiting" =>
                /\ sends'[n].status = "settled"
                /\ Len(messages') = Len(messages) + 1
                /\ IsPrefix(messages, messages')
                /\ messages'[Len(messages')].type = "smartkissan"
                /\ messages'[Len(messages')].send = n
                /\ \A i \in 1..Len(messages) :
                      messages[i].send = n => messages[i].type = "user"
                /\ isLoading' = FALSE
           /\ sends[n].status # "awaiting" => sends'[n] = sends[n]
           /\ sends'[n] = sends[n] =>
                \A i \in 1..Len(messages') :
                  messages'[i].send = n => messages'[i] \in Range(messages)
    ]_vars

\* a blank send was ignored, and a later send got its one reply from the
\* catch block after the agent call was rejected
IgnoredThenRejectedSendAnswered ==
  /\ Len(sends) = 2
  /\ sends[1].status = "ignored"
  /\ sends[2].status = "settled"
  /\ Len(messages) = 3
  /\ messages[2].type = "user" /\ messages[2].send = 2
  /\ messages[3] = Message("smartkissan", TroubleText("en"), "", FALSE, 2)
  /\ ~isLoading

\* C26: toggling the language removes no message already in the list other
\* than the welcome message, whose language it changes.
ToggleKeepsConversation ==
  [][ language' # language =>
        \A i \in 1..Len(messages) :
          messages[i].send # 0 => messages[i] \in Range(messages')
    ]_vars
=========================================================================
